---- MODULE Spec2Model ----
(***************************************************************************)
(* A model of package lazy (perdata/lazy): the lazy Array with deferred    *)
(* Slice and Splice, and the ForEach traversal of the underlying segments. *)
(*                                                                         *)
(* An Array is a Go struct and is copied by value; the only pointer in it  *)
(* is `replacement`, which points to a cell of the Go heap.  The heap is   *)
(* the variable mem: a sequence of Array values, a pointer being an index  *)
(* into it and 0 being nil.  The interface value `Value` is nil, a Slicer  *)
(* (the test's string payload) or an Array held by value.                  *)
(***************************************************************************)
EXTENDS Integers, Sequences, FiniteSets, TLC

VARIABLES
    held,   \* the Array values the caller holds, each beside the eagerly
            \* spliced reference string the tests keep with it
    mem,    \* the Go heap: the cells that replacement pointers point to
    last    \* the last call made: its arguments, its outcome, the payload
            \* Slice calls and the visit calls it made

vars == <<held, mem, last>>

----------------------------------------------------------------------------
\* Bounds of the model.

\* The number of derived Array values the caller keeps at most, beside the
\* ones it makes in place; a call on them returns a node one level deeper.
MaxHeld == 2

\* The width in bits of the machine int of the model (Go's int has 64).
IntBits == 8

\* The limit the caller gives its leaves (the tests use 10).
TestLimit == 1

\* The limit of the caller loop of TestRandomSplices (the test has 10).
LoopLimit == 2

\* The longest string the caller loop grows (the test starts with 10
\* characters and runs 500000 splices).
MaxSize == 3

\* The number of Slice and Splice calls each of the concurrent callers makes.
MaxOps == 1

----------------------------------------------------------------------------
\* Machine integers: Go's int arithmetic wraps around modulo 2^IntBits.

MaxInt == 2 ^ (IntBits - 1) - 1
MinInt == 0 - 2 ^ (IntBits - 1)

Wrap(x) == ((x - MinInt) % (2 ^ IntBits)) + MinInt

Plus(x, y) == Wrap(x + y)

Minus(x, y) == Wrap(x - y)

----------------------------------------------------------------------------
\* The leaf payloads: type Slicer string of the tests, cut short.  The
\* characters differ, so a segment taken from the wrong place shows.

\* The payload of newArray(str), whose Limit is 0.
Hello == <<"a", "b">>

\* The payload of lazy.Array{Limit: limit, Count: len(r), Value: Slicer(r)}.
Other == <<"c">>

\* The empty interface value, and the two kinds of value it may hold.
NilValue == [tag |-> "nil"]

SlicerValue(s) == [tag |-> "Slicer", s |-> s]

ArrayValue(a) == [tag |-> "Array", a |-> a]

\* The nil pointer.
NilPtr == 0

\* type Array struct
Array(limit, count, value, offset, rcount, replacement) ==
    [Limit |-> limit, Count |-> count, Value |-> value,
     offset |-> offset, rcount |-> rcount, replacement |-> replacement]

\* lazy.Array{}
ZeroArray == Array(0, 0, NilValue, 0, 0, NilPtr)

\* lazy.Array{Limit: limit, Count: len(str), Value: Slicer(str)}
NewArray(limit, str) == Array(limit, Len(str), SlicerValue(str), 0, 0, NilPtr)

----------------------------------------------------------------------------
\* The leaf payload's capability, and the calls that leave the package.

\* func (s Slicer) Slice(offset, count int) interface{}: s[offset:offset+count],
\* which panics when the range is not within the string.
SlicerInRange(s, offset, count) ==
    0 <= offset /\ offset <= Plus(offset, count) /\ Plus(offset, count) <= Len(s)

SlicerSlice(s, offset, count) == SubSeq(s, offset + 1, offset + count)

\* The two calls of the traversal that leave the package.
SliceCall(s, offset, count) ==
    [call |-> "Slice", recv |-> s, offset |-> offset, count |-> count]

VisitCall(v, count) == [call |-> "fn", v |-> v, count |-> count]

----------------------------------------------------------------------------
\* The outcome of a call: whether it panicked, the Array it returned, and
\* the calls it made to a payload's Slice and to the visit callback.

Panic == [panic |-> TRUE, res |-> ZeroArray, calls |-> <<>>]

Return(a) == [panic |-> FALSE, res |-> a, calls |-> <<>>]

\* A bounds check that forgets the negative count.
InvalidArgsNoCount(a, offset, count) ==
    offset < 0 \/ Plus(offset, count) > a.Count

\* offset < 0 || count < 0 || offset+count > a.Count
InvalidArgs(a, offset, count) ==
    offset < 0 \/ count < 0 \/ Plus(offset, count) > a.Count

\* A Slice that forgets the offset of the slice-view it is taken from.
SliceDropsOffset(a, offset, count) ==
    IF InvalidArgs(a, offset, count) THEN Panic
    ELSE IF offset = 0 /\ count = a.Count THEN Return(a)
    ELSE IF count = 0 THEN Return(Array(a.Limit, 0, NilValue, 0, 0, NilPtr))
    ELSE IF a.replacement = NilPtr
         THEN Return(Array(a.Limit, count, a.Value, offset, 0, NilPtr))
    ELSE Return(Array(Minus(a.Limit, 1), count, ArrayValue(a),
                      offset, 0, NilPtr))

\* A Slice whose empty result is the zero value: it forgets the limit.
SliceEmptyIsZero(a, offset, count) ==
    IF InvalidArgs(a, offset, count) THEN Panic
    ELSE IF offset = 0 /\ count = a.Count THEN Return(a)
    ELSE IF count = 0 THEN Return(ZeroArray)
    ELSE IF a.replacement = NilPtr
         THEN Return(Array(a.Limit, count, a.Value,
                           Plus(a.offset, offset), 0, NilPtr))
    ELSE Return(Array(Minus(a.Limit, 1), count, ArrayValue(a),
                      offset, 0, NilPtr))

\* An eager Slice: on a node over a payload it slices the payload at once and
\* returns a leaf over the segment.
SliceEager(a, offset, count) ==
    IF InvalidArgs(a, offset, count) THEN Panic
    ELSE IF offset = 0 /\ count = a.Count THEN Return(a)
    ELSE IF count = 0 THEN Return(Array(a.Limit, 0, NilValue, 0, 0, NilPtr))
    ELSE IF a.replacement = NilPtr
         THEN IF a.Value.tag = "Slicer"
              THEN [panic |-> FALSE,
                    res |-> Array(a.Limit, count,
                                  SlicerValue(SlicerSlice(a.Value.s,
                                                          Plus(a.offset, offset),
                                                          count)),
                                  0, 0, NilPtr),
                    calls |-> << SliceCall(a.Value.s, Plus(a.offset, offset),
                                           count) >>]
              ELSE Return(Array(a.Limit, count, a.Value,
                                Plus(a.offset, offset), 0, NilPtr))
    ELSE Return(Array(Minus(a.Limit, 1), count, ArrayValue(a),
                      offset, 0, NilPtr))

\* A Slice that wraps every slice-view with a non-zero offset instead of
\* adding the offsets.
SliceWrapsSliceView(a, offset, count) ==
    IF InvalidArgs(a, offset, count) THEN Panic
    ELSE IF offset = 0 /\ count = a.Count THEN Return(a)
    ELSE IF count = 0 THEN Return(Array(a.Limit, 0, NilValue, 0, 0, NilPtr))
    ELSE IF a.replacement = NilPtr /\ a.offset = 0
         THEN Return(Array(a.Limit, count, a.Value, offset, 0, NilPtr))
    ELSE Return(Array(Minus(a.Limit, 1), count, ArrayValue(a),
                      offset, 0, NilPtr))

\* A Slice that collapses over a splice-view as it does over a slice-view:
\* the result loses the replacement.
SliceCollapsesSplice(a, offset, count) ==
    IF InvalidArgs(a, offset, count) THEN Panic
    ELSE IF offset = 0 /\ count = a.Count THEN Return(a)
    ELSE IF count = 0 THEN Return(Array(a.Limit, 0, NilValue, 0, 0, NilPtr))
    ELSE Return(Array(a.Limit, count, a.Value,
                      Plus(a.offset, offset), 0, NilPtr))

\* func (a Array) Slice(offset, count int) Array
Slice(a, offset, count) ==
    IF InvalidArgs(a, offset, count) THEN Panic
    ELSE IF offset = 0 /\ count = a.Count THEN Return(a)
    ELSE IF count = 0 THEN Return(Array(a.Limit, 0, NilValue, 0, 0, NilPtr))
    ELSE IF a.replacement = NilPtr
         THEN Return(Array(a.Limit, count, a.Value,
                           Plus(a.offset, offset), 0, NilPtr))
    ELSE Return(Array(Minus(a.Limit, 1), count, ArrayValue(a),
                      offset, 0, NilPtr))

\* A Splice that records the length of the replacement as the length of the
\* replaced range.
SpliceWrongRcount(a, offset, count, replacement, m) ==
    IF InvalidArgs(a, offset, count) THEN Panic @@ [mem |-> m]
    ELSE IF offset = 0 /\ count = a.Count
         THEN Return(replacement) @@ [mem |-> m]
    ELSE LET diff == Minus(replacement.Count, count)
             nest == a.offset # 0 \/ a.replacement # NilPtr
             value == IF nest THEN ArrayValue(a) ELSE a.Value
             limit == IF nest THEN Minus(a.Limit, 1) ELSE a.Limit
         IN  Return(Array(limit, Plus(a.Count, diff), value,
                          offset, replacement.Count, Len(m) + 1))
                 @@ [mem |-> Append(m, replacement)]

\* A Splice of a splice-view that puts the new replacement into the cell the
\* receiver's replacement pointer points to, instead of a cell of its own.
SpliceReusesCell(a, offset, count, replacement, m) ==
    IF InvalidArgs(a, offset, count) THEN Panic @@ [mem |-> m]
    ELSE IF offset = 0 /\ count = a.Count
         THEN Return(replacement) @@ [mem |-> m]
    ELSE LET diff == Minus(replacement.Count, count)
             nest == a.offset # 0 \/ a.replacement # NilPtr
             value == IF nest THEN ArrayValue(a) ELSE a.Value
             limit == IF nest THEN Minus(a.Limit, 1) ELSE a.Limit
             ptr == IF a.replacement # NilPtr THEN a.replacement ELSE Len(m) + 1
         IN  Return(Array(limit, Plus(a.Count, diff), value,
                          offset, count, ptr))
                 @@ [mem |-> IF a.replacement # NilPtr
                             THEN [m EXCEPT ![ptr] = replacement]
                             ELSE Append(m, replacement)]

\* A Splice whose whole-range result carries the limit of the receiver.
SpliceWholeKeepsLimit(a, offset, count, replacement, m) ==
    IF InvalidArgs(a, offset, count) THEN Panic @@ [mem |-> m]
    ELSE IF offset = 0 /\ count = a.Count
         THEN Return([replacement EXCEPT !.Limit = a.Limit]) @@ [mem |-> m]
    ELSE LET diff == Minus(replacement.Count, count)
             nest == a.offset # 0 \/ a.replacement # NilPtr
             value == IF nest THEN ArrayValue(a) ELSE a.Value
             limit == IF nest THEN Minus(a.Limit, 1) ELSE a.Limit
         IN  Return(Array(limit, Plus(a.Count, diff), value,
                          offset, count, Len(m) + 1))
                 @@ [mem |-> Append(m, replacement)]

\* A Splice that wraps the receiver only when it is a splice-view: it takes a
\* slice-view for a leaf and loses its offset.
SpliceNestsOnlySplices(a, offset, count, replacement, m) ==
    IF InvalidArgs(a, offset, count) THEN Panic @@ [mem |-> m]
    ELSE IF offset = 0 /\ count = a.Count
         THEN Return(replacement) @@ [mem |-> m]
    ELSE LET diff == Minus(replacement.Count, count)
             nest == a.replacement # NilPtr
             value == IF nest THEN ArrayValue(a) ELSE a.Value
             limit == IF nest THEN Minus(a.Limit, 1) ELSE a.Limit
         IN  Return(Array(limit, Plus(a.Count, diff), value,
                          offset, count, Len(m) + 1))
                 @@ [mem |-> Append(m, replacement)]

\* A Splice that wraps the receiver without decrementing the limit.
SpliceWrapKeepsLimit(a, offset, count, replacement, m) ==
    IF InvalidArgs(a, offset, count) THEN Panic @@ [mem |-> m]
    ELSE IF offset = 0 /\ count = a.Count
         THEN Return(replacement) @@ [mem |-> m]
    ELSE LET diff == Minus(replacement.Count, count)
             nest == a.offset # 0 \/ a.replacement # NilPtr
             value == IF nest THEN ArrayValue(a) ELSE a.Value
         IN  Return(Array(a.Limit, Plus(a.Count, diff), value,
                          offset, count, Len(m) + 1))
                 @@ [mem |-> Append(m, replacement)]

\* A Splice that saves an allocation: when the receiver is a splice-view and
\* the new replacement is a leaf, it puts the leaf into the cell of the
\* receiver's replacement, which other nodes share.
SpliceSharedCell(a, offset, count, replacement, m) ==
    IF InvalidArgs(a, offset, count) THEN Panic @@ [mem |-> m]
    ELSE IF offset = 0 /\ count = a.Count
         THEN Return(replacement) @@ [mem |-> m]
    ELSE LET diff == Minus(replacement.Count, count)
             nest == a.offset # 0 \/ a.replacement # NilPtr
             value == IF nest THEN ArrayValue(a) ELSE a.Value
             limit == IF nest THEN Minus(a.Limit, 1) ELSE a.Limit
             reuse == /\ a.replacement # NilPtr
                      /\ replacement.replacement = NilPtr
                      /\ replacement.Value.tag # "Array"
             ptr == IF reuse THEN a.replacement ELSE Len(m) + 1
         IN  Return(Array(limit, Plus(a.Count, diff), value,
                          offset, count, ptr))
                 @@ [mem |-> IF reuse THEN [m EXCEPT ![ptr] = replacement]
                             ELSE Append(m, replacement)]

\* func (a Array) Splice(offset, count int, replacement Array) Array
\* The outcome also holds the heap after the call: &replacement is a new
\* cell holding the copy of the argument.
Splice(a, offset, count, replacement, m) ==
    IF InvalidArgs(a, offset, count) THEN Panic @@ [mem |-> m]
    ELSE IF offset = 0 /\ count = a.Count
         THEN Return(replacement) @@ [mem |-> m]
    ELSE LET diff == Minus(replacement.Count, count)
             nest == a.offset # 0 \/ a.replacement # NilPtr
             value == IF nest THEN ArrayValue(a) ELSE a.Value
             limit == IF nest THEN Minus(a.Limit, 1) ELSE a.Limit
         IN  Return(Array(limit, Plus(a.Count, diff), value,
                          offset, count, Len(m) + 1))
                 @@ [mem |-> Append(m, replacement)]

----------------------------------------------------------------------------
\* The traversal.

Done == [panic |-> FALSE, calls |-> <<>>]

\* Statement x followed by statement y: a panic in x ends the traversal.
Then(x, y) ==
    IF x.panic THEN x ELSE [panic |-> y.panic, calls |-> x.calls \o y.calls]

\* An intersection that takes the end of the zone for the end of the overlap.
intersectZoneEnd(o1, c1, o2, c2) ==
    LET s == IF o2 > o1 THEN o2 ELSE o1
        e == Plus(o2, c2)
    IN  IF e > s THEN [o |-> s, c |-> Minus(e, s)] ELSE [o |-> 0, c |-> 0]

\* An intersection that does not test whether the overlap is empty.
intersectNoEmpty(o1, c1, o2, c2) ==
    LET s == IF o2 > o1 THEN o2 ELSE o1
        e == IF Plus(o2, c2) < Plus(o1, c1) THEN Plus(o2, c2) ELSE Plus(o1, c1)
    IN  [o |-> s, c |-> Minus(e, s)]

\* func (a Array) intersect(o1, c1, o2, c2 int) (int, int)
intersect(o1, c1, o2, c2) ==
    LET s == IF o2 > o1 THEN o2 ELSE o1
        e == IF Plus(o2, c2) < Plus(o1, c1) THEN Plus(o2, c2) ELSE Plus(o1, c1)
    IN  IF e > s THEN [o |-> s, c |-> Minus(e, s)] ELSE [o |-> 0, c |-> 0]

RECURSIVE forEachValue(_, _, _, _), forEach(_, _, _, _)

\* func forEach(v interface{}, offset, count int, fn func(interface{}, int))
forEachValue(v, offset, count, m) ==
    IF count = 0 THEN Done
    ELSE IF v.tag = "Array" THEN forEach(v.a, offset, count, m)
    ELSE IF v.tag = "Slicer"
         THEN IF SlicerInRange(v.s, offset, count)
              THEN [panic |-> FALSE,
                    calls |-> << SliceCall(v.s, offset, count),
                                 VisitCall(SlicerSlice(v.s, offset, count), count) >>]
              ELSE [panic |-> TRUE, calls |-> << SliceCall(v.s, offset, count) >>]
    ELSE [panic |-> TRUE, calls |-> <<>>]  \* v.(Slicer) of a nil interface

\* A traversal that does not shift the tail by the length of the replaced
\* range.
forEachNoRcount(a, offset, count, m) ==
    IF count = 0 THEN Done
    ELSE IF a.replacement # NilPtr
         THEN LET r == m[a.replacement]
                  head == intersect(offset, count, 0, a.offset)
                  mid == intersect(offset, count, a.offset, r.Count)
                  tail == intersect(offset, count, Plus(a.offset, r.Count), a.Count)
              IN  Then(Then(forEachValue(a.Value, head.o, head.c, m),
                            forEach(r, Minus(mid.o, a.offset), mid.c, m)),
                       forEachValue(a.Value, Minus(tail.o, r.Count), tail.c, m))
    ELSE forEachValue(a.Value, Plus(a.offset, offset), count, m)

\* func (a Array) forEach(offset, count int, fn func(interface{}, int))
forEach(a, offset, count, m) ==
    IF count = 0 THEN Done
    ELSE IF a.replacement # NilPtr
         THEN LET r == m[a.replacement]
                  head == intersect(offset, count, 0, a.offset)
                  mid == intersect(offset, count, a.offset, r.Count)
                  tail == intersect(offset, count, Plus(a.offset, r.Count), a.Count)
              IN  Then(Then(forEachValue(a.Value, head.o, head.c, m),
                            forEach(r, Minus(mid.o, a.offset), mid.c, m)),
                       forEachValue(a.Value,
                                    Plus(Minus(tail.o, r.Count), a.rcount),
                                    tail.c, m))
    ELSE forEachValue(a.Value, Plus(a.offset, offset), count, m)

\* A call of the method forEach on a node: the window it asks of it.
Window(a, offset, count) == [node |-> a, offset |-> offset, count |-> count]

RECURSIVE forEachValueWindows(_, _, _, _), forEachWindows(_, _, _, _)

\* The calls of Array.forEach that forEach(v, offset, count, fn) makes: the one
\* on v when v is a node and count is not 0, and the ones made below it.
forEachValueWindows(v, offset, count, m) ==
    IF count = 0 \/ v.tag # "Array" THEN {}
    ELSE {Window(v.a, offset, count)} \cup forEachWindows(v.a, offset, count, m)

\* The calls of Array.forEach that a.forEach(offset, count, fn) makes: the one
\* on the replacement, with whatever the intersection gave, and the ones made
\* below the value and the replacement.
forEachWindows(a, offset, count, m) ==
    IF count = 0 THEN {}
    ELSE IF a.replacement # NilPtr
         THEN LET r == m[a.replacement]
                  head == intersect(offset, count, 0, a.offset)
                  mid == intersect(offset, count, a.offset, r.Count)
                  tail == intersect(offset, count, Plus(a.offset, r.Count), a.Count)
              IN  forEachValueWindows(a.Value, head.o, head.c, m)
                    \cup {Window(r, Minus(mid.o, a.offset), mid.c)}
                    \cup forEachWindows(r, Minus(mid.o, a.offset), mid.c, m)
                    \cup forEachValueWindows(a.Value,
                                             Plus(Minus(tail.o, r.Count), a.rcount),
                                             tail.c, m)
    ELSE forEachValueWindows(a.Value, Plus(a.offset, offset), count, m)

\* func (a Array) ForEach(fn func(v interface{}, count int))
ForEach(a, m) == forEach(a, 0, a.Count, m) @@ [res |-> ZeroArray]

RECURSIVE Concat(_)
\* What the tests' callbacks accumulate: result += string(leaf.(Slicer))
Concat(calls) ==
    IF calls = <<>> THEN <<>>
    ELSE IF Head(calls).call = "fn" THEN Head(calls).v \o Concat(Tail(calls))
    ELSE Concat(Tail(calls))

\* func toString(a lazy.Array) string
toString(a, m) == Concat(ForEach(a, m).calls)

----------------------------------------------------------------------------
\* The caller.  It holds Array values, each with the reference string that
\* TestRandomSplices keeps beside the array.

Entry(a, s) == [arr |-> a, str |-> s]

NoEntry == Entry(ZeroArray, <<>>)

\* The record of a call: the receiver a, the arguments, the outcome, and the
\* reference string the caller computes eagerly for the result.
Call(op, a, offset, count, r, out, ref) ==
    [op |-> op, a |-> a, offset |-> offset, count |-> count, r |-> r,
     panic |-> out.panic, res |-> out.res, calls |-> out.calls, ref |-> ref]

NoCall == Call("none", NoEntry, 0, 0, NoEntry, Return(ZeroArray), <<>>)

\* The windows tried on a node: every valid one, and an invalid one of each
\* kind TestInvalidOffsets tries (a negative offset, a negative count, a
\* right edge past the end).
Windows(a) ==
    { w \in (0 .. a.Count) \X (0 .. a.Count) : w[1] + w[2] <= a.Count }
    \cup { <<-1, 1>>, <<0, -1>>, <<a.Count, 1>> }

\* s[offset : offset+count]
EagerSlice(s, offset, count) == SubSeq(s, offset + 1, offset + count)

\* s[:offset] + r + s[offset+count:]
EagerSplice(s, offset, count, r) ==
    SubSeq(s, 1, offset) \o r \o SubSeq(s, offset + count + 1, Len(s))

\* The arrays the caller makes in place: lazy.Array{} and newArray(str), also
\* with the limit of TestRandomSplices.
Fresh ==
    { Entry(ZeroArray, <<>>),
      Entry(NewArray(0, Hello), Hello),
      Entry(NewArray(TestLimit, Other), Other) }

\* What a call may be made on or with.
Operands == held \cup Fresh

Init ==
    /\ held = {}
    /\ mem = <<>>
    /\ last = NoCall

\* a.Slice(offset, count)
DoSlice ==
    \E h \in Operands : \E w \in Windows(h.arr) :
        LET offset == w[1]
            count == w[2]
            out == Slice(h.arr, offset, count)
            ref == IF out.panic THEN <<>> ELSE EagerSlice(h.str, offset, count)
        IN  /\ last' = Call("Slice", h, offset, count, NoEntry, out, ref)
            /\ UNCHANGED <<held, mem>>

\* a.Splice(offset, count, r)
DoSplice ==
    \E h \in Operands, r \in Operands : \E w \in Windows(h.arr) :
        LET offset == w[1]
            count == w[2]
            out == Splice(h.arr, offset, count, r.arr, mem)
            ref == IF out.panic THEN <<>>
                   ELSE EagerSplice(h.str, offset, count, r.str)
        IN  /\ mem' = out.mem
            /\ last' = Call("Splice", h, offset, count, r, out, ref)
            /\ UNCHANGED held

\* a.ForEach(fn)
DoForEach ==
    \E h \in Operands :
        /\ last' = Call("ForEach", h, 0, 0, NoEntry, ForEach(h.arr, mem), h.str)
        /\ UNCHANGED <<held, mem>>

\* The caller's flattening of TestRandomSplices:
\*   if a.Limit <= 0 { a.ForEach(...); a = lazy.Array{Limit: limit, ...} }
Flatten ==
    \E h \in Operands :
        LET out == ForEach(h.arr, mem)
            s == Concat(out.calls)
            a == IF out.panic THEN ZeroArray ELSE NewArray(TestLimit, s)
        IN  /\ h.arr.Limit <= 0
            /\ last' = Call("Flatten", h, 0, 0, NoEntry,
                            [out EXCEPT !.res = a], h.str)
            /\ UNCHANGED <<held, mem>>

\* The call has returned an Array.
Returned == last.op \in {"Slice", "Splice", "Flatten"} /\ ~last.panic

\* x := <the result>: the caller keeps the returned Array in a variable of
\* its own, unless it has it already.
Keep ==
    /\ Returned
    /\ Entry(last.res, last.ref) \notin Operands
    /\ Cardinality(held) < MaxHeld
    /\ held' = held \cup {Entry(last.res, last.ref)}
    /\ last' = NoCall
    /\ UNCHANGED mem

\* The caller uses the result in place and drops it (toString(a.Slice(..))):
\* a cell of the heap that only the dropped result pointed to is collected.
Drop ==
    /\ last.op # "none" /\ ~last.panic
    /\ mem' = IF Returned /\ last.res.replacement = Len(mem)
                 /\ \A e \in held : e.arr.replacement # Len(mem)
              THEN SubSeq(mem, 1, Len(mem) - 1) ELSE mem
    /\ last' = NoCall
    /\ UNCHANGED held

\* A call is made when the last one has returned; a panic is not recovered
\* and ends the program.
Next ==
    \/ last.op = "none" /\ (DoSlice \/ DoSplice \/ DoForEach \/ Flatten)
    \/ Keep
    \/ Drop

Spec == Init /\ [][Next]_vars

----------------------------------------------------------------------------
\* The caller of TestInvalidOffsets with arguments up to the ends of the
\* machine int.

\* The arguments tried: small ones, negative ones and the largest ints.
EdgeInts == {MinInt, -1, 0, 1, 2, MaxInt - 1, MaxInt}

\* The reference string of a call made with any arguments: s[offset :
\* offset+count] is defined only within the string.
EdgeRef(out, s, offset, count, ref) ==
    IF out.panic \/ offset < 0 \/ count < 0 \/ offset + count > Len(s)
    THEN <<>> ELSE ref

\* a.Slice(offset, count)
SliceAtEdge ==
    \E h \in Operands : \E offset \in EdgeInts, count \in EdgeInts :
        LET out == Slice(h.arr, offset, count)
            ref == EdgeRef(out, h.str, offset, count,
                           EagerSlice(h.str, offset, count))
        IN  /\ last' = Call("Slice", h, offset, count, NoEntry, out, ref)
            /\ UNCHANGED <<held, mem>>

\* a.Splice(offset, count, r)
SpliceAtEdge ==
    \E h \in Operands, r \in Fresh :
      \E offset \in EdgeInts, count \in EdgeInts :
        LET out == Splice(h.arr, offset, count, r.arr, mem)
            ref == EdgeRef(out, h.str, offset, count,
                           EagerSplice(h.str, offset, count, r.str))
        IN  /\ mem' = out.mem
            /\ last' = Call("Splice", h, offset, count, r, out, ref)
            /\ UNCHANGED held

\* The caller keeps one result.
KeepFirst == held = {} /\ Keep

NextAtEdge ==
    \/ last.op = "none" /\ (SliceAtEdge \/ SpliceAtEdge \/ DoForEach)
    \/ KeepFirst
    \/ Drop

SpecAtEdge == Init /\ [][NextAtEdge]_vars

----------------------------------------------------------------------------
\* The caller loop of TestRandomSplices: benchmarkRun draws the arguments and
\* the closure splice applies them to the one array it holds.

\* What the loop knows beside the call it made: how many iterations in a row
\* have left an array that is not a bare leaf, and whether the last one
\* flattened.
Loop(sinceLeaf, flattened) == [sinceLeaf |-> sinceLeaf, flattened |-> flattened]

\* A flattening that waits for the limit to fall below zero.
NeedsFlattenLate(a) == a.Limit < 0

\* if a.Limit <= 0
NeedsFlatten(a) == a.Limit <= 0

\* A leaf as the caller makes it (also used to state the claims).
IsLeaf(a) ==
    /\ a.Value.tag = "Slicer" /\ a.Count = Len(a.Value.s)
    /\ a.offset = 0 /\ a.rcount = 0 /\ a.replacement = NilPtr

\* init(str): a = lazy.Array{Limit: limit, Count: len(str), Value: Slicer(str)}
InitRandomSplices ==
    /\ held = {Entry(NewArray(LoopLimit, Hello), Hello)}
    /\ mem = <<>>
    /\ last = Loop(0, FALSE) @@ NoCall

\* One iteration of benchmarkRun: offset = rand.Intn(size),
\* count = rand.Intn(size - offset), v one letter, then splice(offset, count, v):
\* the eager splice of s, a = a.Splice(...), and the flattening when
\* a.Limit <= 0, after which no cell of the heap is in use.
RandomSplice ==
    \E e \in held :
      \E offset \in 0 .. (Len(e.str) - 1) :
        \E count \in 0 .. (Len(e.str) - offset - 1) :
          LET r == NewArray(LoopLimit, Other)
              out == Splice(e.arr, offset, count, r, mem)
              s == EagerSplice(e.str, offset, count, Other)
              flat == ~out.panic /\ NeedsFlatten(out.res)
              trav == ForEach(out.res, out.mem)
              a == IF flat THEN NewArray(LoopLimit, Concat(trav.calls))
                   ELSE out.res
              failed == out.panic \/ (flat /\ trav.panic)
          IN  /\ ~last.panic
              /\ Len(s) <= MaxSize
              /\ last.sinceLeaf <= LoopLimit + 1
              /\ held' = IF failed THEN held ELSE {Entry(a, s)}
              /\ mem' = IF failed THEN mem ELSE IF flat THEN <<>> ELSE out.mem
              /\ last' = Loop(IF IsLeaf(a) THEN 0 ELSE last.sinceLeaf + 1, flat)
                           @@ Call("Splice", e, offset, count, Entry(r, Other),
                                   [panic |-> failed, res |-> a,
                                    calls |-> IF flat THEN trav.calls ELSE <<>>],
                                   s)

NextRandomSplices == RandomSplice

SpecRandomSplices == InitRandomSplices /\ [][NextRandomSplices]_vars

----------------------------------------------------------------------------
\* Concurrent callers.  Each holds its own copy of an Array (a Go value) and
\* shares the heap, where the replacement of a splice-view lives; a Slice or a
\* Splice is one step (neither reads the heap, a Splice allocates one cell),
\* and a traversal is a step for each call of forEach, of Array.forEach and
\* for each of the reads of a.replacement between them.

Callers == {1, 2}

\* The ancestor the callers share: a splice-view, and the heap that holds
\* its replacement.
Shared == Splice(NewArray(0, Hello), 1, 0, NewArray(TestLimit, Other), <<>>)

\* What a caller holds: its Array, the number of calls it has made, and the
\* Array and the heap it would have had it run alone.
Holding(a, ops, solo) == [arr |-> a, ops |-> ops, solo |-> solo]

Alone(a, m) == [arr |-> a, mem |-> m]

\* A call of the traversal that has not been made yet: forEach(v, o, c, fn)
\* ("value"), a.forEach(o, c, fn) ("node"), and the rest of the splice branch
\* of a.forEach(o, c, fn) from its second ("mid") and its third ("tail")
\* intersection on.
Frame(k, x, o, c) == [k |-> k, x |-> x, o |-> o, c |-> c]

\* The traversal a caller is in: the calls still to make and the calls made
\* to the payloads and to the callback.
Traversal(pc, stack, calls) == [pc |-> pc, stack |-> stack, calls |-> calls]

Idle == Traversal("idle", <<>>, <<>>)

\* What the first pending call of the traversal does when it is made with
\* the heap m: the calls it makes to a payload and to the callback, and the
\* calls that take its place.
Expand(f, m) ==
    IF f.c = 0 /\ f.k \in {"value", "node"}
    THEN [panic |-> FALSE, calls |-> <<>>, push |-> <<>>]
    ELSE IF f.k = "value"
    THEN IF f.x.tag = "Array"
         THEN [panic |-> FALSE, calls |-> <<>>,
               push |-> << Frame("node", f.x.a, f.o, f.c) >>]
         ELSE forEachValue(f.x, f.o, f.c, m) @@ [push |-> <<>>]
    ELSE IF f.k = "node"
    THEN IF f.x.replacement # NilPtr
         THEN LET head == intersect(f.o, f.c, 0, f.x.offset)
              IN  [panic |-> FALSE, calls |-> <<>>,
                   push |-> << Frame("value", f.x.Value, head.o, head.c),
                               Frame("mid", f.x, f.o, f.c),
                               Frame("tail", f.x, f.o, f.c) >>]
         ELSE [panic |-> FALSE, calls |-> <<>>,
               push |-> << Frame("value", f.x.Value,
                                 Plus(f.x.offset, f.o), f.c) >>]
    ELSE IF f.k = "mid"
    THEN LET r == m[f.x.replacement]
             mid == intersect(f.o, f.c, f.x.offset, r.Count)
         IN  [panic |-> FALSE, calls |-> <<>>,
              push |-> << Frame("node", r, Minus(mid.o, f.x.offset), mid.c) >>]
    ELSE LET r == m[f.x.replacement]
             tail == intersect(f.o, f.c, Plus(f.x.offset, r.Count), f.x.Count)
         IN  [panic |-> FALSE, calls |-> <<>>,
              push |-> << Frame("value", f.x.Value,
                                Plus(Minus(tail.o, r.Count), f.x.rcount),
                                tail.c) >>]

\* The windows a concurrent caller asks for: the valid ones.
ValidWindows(a) ==
    { w \in (0 .. a.Count) \X (0 .. a.Count) : w[1] + w[2] <= a.Count }

InitConcurrent ==
    /\ mem = Shared.mem
    /\ held = [p \in Callers |->
                 Holding(Shared.res, 0, Alone(Shared.res, Shared.mem))]
    /\ last = [p \in Callers |-> Idle]

\* Caller p: x = x.Slice(offset, count)
CallSlice(p) ==
    \E w \in ValidWindows(held[p].arr) :
        LET h == held[p]
            out == Slice(h.arr, w[1], w[2])
            solo == Slice(h.solo.arr, w[1], w[2])
        IN  /\ last[p].pc = "idle" /\ h.ops < MaxOps
            /\ ~out.panic
            /\ held' = [held EXCEPT ![p] =
                          Holding(out.res, h.ops + 1,
                                  Alone(solo.res, h.solo.mem))]
            /\ UNCHANGED <<mem, last>>

\* Caller p: x = x.Splice(offset, count, r), with the shared ancestor or a
\* leaf of its own as r.
CallSplice(p) ==
    \E w \in ValidWindows(held[p].arr) :
      \E r \in {Alone(Shared.res, Shared.mem),
                Alone(NewArray(0, Hello), <<>>)} :
        LET h == held[p]
            out == Splice(h.arr, w[1], w[2], r.arr, mem)
            solo == Splice(h.solo.arr, w[1], w[2], r.arr, h.solo.mem)
        IN  /\ last[p].pc = "idle" /\ h.ops < MaxOps
            /\ ~out.panic
            /\ mem' = out.mem
            /\ held' = [held EXCEPT ![p] =
                          Holding(out.res, h.ops + 1,
                                  Alone(solo.res, solo.mem))]
            /\ UNCHANGED last

\* Caller p: x.ForEach(fn) is called.
StartForEach(p) ==
    /\ last[p].pc = "idle"
    /\ last' = [last EXCEPT ![p] =
                  Traversal("forEach",
                            << Frame("node", held[p].arr, 0, held[p].arr.Count) >>,
                            <<>>)]
    /\ UNCHANGED <<held, mem>>

\* Caller p: the traversal makes its next call, or returns.
StepForEach(p) ==
    /\ last[p].pc = "forEach"
    /\ LET t == last[p]
       IN  IF t.stack = <<>>
           THEN last' = [last EXCEPT ![p] = Traversal("done", <<>>, t.calls)]
           ELSE LET e == Expand(Head(t.stack), mem)
                IN  last' = [last EXCEPT ![p] =
                               IF e.panic
                               THEN Traversal("panic", <<>>, t.calls \o e.calls)
                               ELSE Traversal("forEach",
                                              e.push \o Tail(t.stack),
                                              t.calls \o e.calls)]
    /\ UNCHANGED <<held, mem>>

NextConcurrent ==
    \E p \in Callers :
        \/ CallSlice(p)
        \/ CallSplice(p)
        \/ StartForEach(p)
        \/ StepForEach(p)

SpecConcurrent == InitConcurrent /\ [][NextConcurrent]_vars

----------------------------------------------------------------------------
\* What the claims are stated with.

\* The call that has just returned is a successful Slice / Splice.
Sliced == last.op = "Slice" /\ ~last.panic

Spliced == last.op = "Splice" /\ ~last.panic

\* The window of the last call is the whole receiver.
WholeRange == last.offset = 0 /\ last.count = last.a.arr.Count

\* The visit calls among the calls of a traversal.
Visits(calls) == SelectSeq(calls, LAMBDA c : c.call = "fn")

RECURSIVE SumCounts(_)
SumCounts(visits) ==
    IF visits = <<>> THEN 0
    ELSE Head(visits).count + SumCounts(Tail(visits))

\* The node is a splice-view / wraps another node.
IsSplice(a) == a.replacement # NilPtr

IsNested(a) == a.Value.tag = "Array"

----------------------------------------------------------------------------
\* C1: the segments ForEach delivers for a.Splice(offset, count, r), put
\* together in call order, are content(a)[0:offset] ++ content(r) ++
\* content(a)[offset+count:], where content is what ForEach delivers; and the
\* array agrees with the eagerly spliced reference string after every step,
\* also after the caller has flattened it to a fresh leaf.
C1_SpliceEqualsEager ==
    /\ Spliced =>
         /\ toString(last.res, mem)
              = EagerSplice(toString(last.a.arr, mem), last.offset, last.count,
                            toString(last.r.arr, mem))
         /\ toString(last.res, mem) = last.ref
    /\ (last.op = "Flatten" /\ ~last.panic) =>
         toString(last.res, mem) = last.ref

\* A splice strictly inside a nested splice-view, with a splice-view as the
\* replacement.
C1_Witness ==
    /\ Spliced /\ ~WholeRange
    /\ IsSplice(last.a.arr) /\ IsNested(last.a.arr)
    /\ IsSplice(last.r.arr)
    /\ last.offset > 0 /\ last.count > 0
    /\ last.offset + last.count < last.a.arr.Count
    /\ Len(toString(last.res, mem)) > 3

\* C2: the segments ForEach delivers for a.Slice(offset, count), put together
\* in call order, are content(a)[offset : offset+count].
C2_SliceEqualsWindow ==
    Sliced =>
        /\ toString(last.res, mem)
             = EagerSlice(toString(last.a.arr, mem), last.offset, last.count)
        /\ toString(last.res, mem) = last.ref

\* A window over a nested splice-view that takes a part of its head, its
\* whole replacement and a part of its tail.
C2_Witness ==
    /\ Sliced
    /\ IsSplice(last.a.arr) /\ IsNested(last.a.arr)
    /\ 0 < last.offset /\ last.offset < last.a.arr.offset
    /\ mem[last.a.arr.replacement].Count > 0
    /\ last.offset + last.count
         > last.a.arr.offset + mem[last.a.arr.replacement].Count
    /\ last.offset + last.count < last.a.arr.Count

\* C3: a Slice or Splice with offset < 0, count < 0 or offset + count > a.Count
\* panics: it returns no node, and the arrays the caller holds and the heap
\* are as they were.
C3_BoundsRejected ==
    [][ ( /\ last'.op \in {"Slice", "Splice"}
          /\ last.op = "none"
          /\ \/ last'.offset < 0
             \/ last'.count < 0
             \/ last'.offset + last'.count > last'.a.arr.Count )
        => ( /\ last'.panic
             /\ last'.res = ZeroArray
             /\ held' = held
             /\ mem' = mem ) ]_vars

\* A Splice on a kept splice-view, with a kept replacement, whose right edge
\* is past the end.
C3_Witness ==
    /\ last.op = "Splice" /\ last.panic
    /\ last.offset >= 0 /\ last.count >= 0
    /\ last.a \in held /\ last.r \in held
    /\ IsSplice(last.a.arr)

\* C4: a node is never modified: whatever call is made or returns, every
\* array the caller holds stays held with the same fields, no cell of the heap
\* changes, and ForEach delivers for it what it delivered before.
C4_Persistence ==
    [][ /\ held \subseteq held'
        /\ \A p \in DOMAIN mem : p \in DOMAIN mem' => mem'[p] = mem[p]
        /\ \A e \in held : ForEach(e.arr, mem') = ForEach(e.arr, mem) ]_vars

\* Two kept nodes that are derived from the same kept splice-view (one with
\* it as replacement), after a further splice on it.
C4_Witness ==
    /\ Spliced /\ ~WholeRange
    /\ last.a \in held /\ IsSplice(last.a.arr)
    /\ \E e \in held : e # last.a /\ IsSplice(e.arr)
                       /\ mem[e.arr.replacement] = last.a.arr

\* C5: a node has Count >= 0 and the lengths of the visit calls ForEach makes
\* on it add up to its Count; a.Slice(offset, count) has Count = count and a
\* Splice that is not the whole-range one has Count = a.Count + r.Count - count.
C5_CountInvariant ==
    /\ (Sliced \/ Spliced) =>
         /\ last.res.Count >= 0
         /\ SumCounts(Visits(ForEach(last.res, mem).calls)) = last.res.Count
    /\ Sliced => last.res.Count = last.count
    /\ (Spliced /\ ~WholeRange) =>
         last.res.Count = last.a.arr.Count + last.r.arr.Count - last.count

\* A splice that shrinks a nested splice-view: it removes more than it puts in.
C5_Witness ==
    /\ Spliced /\ ~WholeRange
    /\ IsSplice(last.a.arr) /\ IsNested(last.a.arr)
    /\ last.count > last.r.arr.Count /\ last.r.arr.Count > 0
    /\ last.res.Count > 0

\* The calls a traversal made to a payload's Slice.
SliceCalls(calls) == SelectSeq(calls, LAMBDA c : c.call = "Slice")

\* Calls i and i+1 to a payload's Slice take adjacent ranges of one payload.
Adjacent(sc, i) ==
    /\ sc[i].recv = sc[i + 1].recv
    /\ sc[i].offset + sc[i].count = sc[i + 1].offset

\* The last call is a traversal that ran to its end.
Traversed == last.op = "ForEach" /\ ~last.panic

\* C6 as stated: ForEach visits once per maximal contiguous run of leaf
\* content, so no two consecutive visits deliver adjacent ranges of the same
\* payload.
C6_MaximalRuns ==
    last.op = "ForEach" =>
        \A i \in 1 .. (Len(SliceCalls(last.calls)) - 1) :
            ~Adjacent(SliceCalls(last.calls), i)

\* C6 amended: ForEach visits the leaf segments of the node from left to
\* right with no overlap and no gap: it does not fail, every visit delivers a
\* non-empty range of one payload of the length it announces, the lengths add
\* up to Count and the segments put together are the content of the node.
C6_OrderedCover ==
    last.op = "ForEach" =>
        /\ ~last.panic
        /\ \A i \in 1 .. Len(Visits(last.calls)) :
             /\ Visits(last.calls)[i].count >= 1
             /\ Len(Visits(last.calls)[i].v) = Visits(last.calls)[i].count
             /\ Visits(last.calls)[i].v
                  = SlicerSlice(SliceCalls(last.calls)[i].recv,
                                SliceCalls(last.calls)[i].offset,
                                SliceCalls(last.calls)[i].count)
        /\ SumCounts(Visits(last.calls)) = last.a.arr.Count
        /\ Concat(last.calls) = last.ref

\* A traversal of a nested splice-view that makes three visits or more, two
\* consecutive ones on adjacent ranges of one payload.
C6_Witness ==
    /\ Traversed
    /\ IsSplice(last.a.arr) /\ IsNested(last.a.arr)
    /\ Len(Visits(last.calls)) >= 3
    /\ \E i \in 1 .. (Len(SliceCalls(last.calls)) - 1) :
           Adjacent(SliceCalls(last.calls), i)

\* C7: a.Slice(0, a.Count) returns a itself and a.Splice(0, a.Count, r)
\* returns r itself, every field unchanged (r's Limit, not a's), also when
\* a.Count = 0; so the results traverse as a and as r do.
C7_IdentityShortCircuit ==
    /\ (last.op = "Slice" /\ WholeRange) =>
         /\ ~last.panic
         /\ last.res = last.a.arr
         /\ ForEach(last.res, mem) = ForEach(last.a.arr, mem)
    /\ (last.op = "Splice" /\ WholeRange) =>
         /\ ~last.panic
         /\ last.res = last.r.arr
         /\ ForEach(last.res, mem) = ForEach(last.r.arr, mem)

\* The whole-range Splice of the zero-value node with a splice-view of
\* another limit.
C7_Witness ==
    /\ last.op = "Splice" /\ WholeRange
    /\ last.a.arr = ZeroArray
    /\ IsSplice(last.r.arr)
    /\ last.r.arr.Limit # last.a.arr.Limit

\* C8: a.Slice(k, 0) returns a node with Count = 0 and Limit = a.Limit on
\* which ForEach makes no visit call; the zero-value node has Count = 0 and
\* ForEach makes no visit call on it.
C8_EmptyWindow ==
    /\ (Sliced /\ last.count = 0) =>
         /\ last.res.Count = 0
         /\ last.res.Limit = last.a.arr.Limit
         /\ ForEach(last.res, mem).calls = <<>>
         /\ ~ForEach(last.res, mem).panic
    /\ ZeroArray.Count = 0
    /\ (last.op = "ForEach" /\ last.a.arr = ZeroArray) =>
         ~last.panic /\ last.calls = <<>>

\* An empty window strictly inside a splice-view whose limit is not 0.
C8_Witness ==
    /\ Sliced /\ last.count = 0
    /\ 0 < last.offset /\ last.offset < last.a.arr.Count
    /\ IsSplice(last.a.arr)
    /\ last.a.arr.Limit # 0

\* C9: Slice and Splice call no payload's Slice and no visit callback; a
\* traversal calls a payload's Slice exactly once for each visit call, right
\* before it.
C9_Laziness ==
    /\ last.op \in {"Slice", "Splice"} => last.calls = <<>>
    /\ (last.op \in {"ForEach", "Flatten"} /\ ~last.panic) =>
         /\ Len(last.calls) = 2 * Len(Visits(last.calls))
         /\ \A i \in 1 .. Len(Visits(last.calls)) :
              /\ last.calls[2 * i - 1].call = "Slice"
              /\ last.calls[2 * i].call = "fn"

\* A Slice of a splice-view over a payload, taken while two derived nodes
\* are held: three deferred operations, and no payload has been sliced.
C9_Witness ==
    /\ Sliced /\ ~WholeRange /\ last.count > 0
    /\ IsSplice(last.a.arr) /\ last.a.arr.Value.tag = "Slicer"
    /\ Cardinality(held) >= 2
    /\ last.calls = <<>>

\* C10 as stated: every Slice or Splice that records a new deferred node
\* returns a node whose Limit is the receiver's Limit minus one.
C10_LimitDecremented ==
    ((Sliced \/ Spliced) /\ ~WholeRange) =>
        last.res.Limit = last.a.arr.Limit - 1

----------------------------------------------------------------------------
\* The kinds of node, and the depth of a node.

\* A leaf as the caller makes it: a payload of Count elements and nothing
\* deferred.  leaf.Slice(0, k) with k < leaf.Count differs from it only by
\* its Count.
IsBareLeaf(a) == IsLeaf(a)

\* leaf.Slice(0, k) with 0 < k < leaf.Count
IsPrefixView(a) ==
    /\ a.Value.tag = "Slicer" /\ 0 < a.Count /\ a.Count < Len(a.Value.s)
    /\ a.offset = 0 /\ a.rcount = 0 /\ a.replacement = NilPtr

RECURSIVE Depth(_)
\* The number of nodes on the chain a, a.Value, a.Value.Value, ... up to the
\* payload.
Depth(a) == IF a.Value.tag = "Array" THEN 1 + Depth(a.Value.a) ELSE 1

RECURSIVE TotalDepth(_, _)
\* The number of nodes on the longest chain a traversal of a descends,
\* through Value and through replacement.
TotalDepth(a, m) ==
    LET v == IF a.Value.tag = "Array" THEN TotalDepth(a.Value.a, m) ELSE 0
        r == IF a.replacement # NilPtr THEN TotalDepth(m[a.replacement], m)
             ELSE 0
    IN  1 + (IF v > r THEN v ELSE r)

\* What every Splice that is not the whole-range one stores: the window and
\* the replacement, in a cell of its own.
StoresSplice ==
    /\ last.res.offset = last.offset
    /\ last.res.rcount = last.count
    /\ last.res.replacement # NilPtr
    /\ mem[last.res.replacement] = last.r.arr

\* C12 as stated: a Splice that is not the whole-range one wraps the whole
\* receiver and decrements the limit when the receiver is anything but a bare
\* leaf, a prefix slice-view leaf.Slice(0, k) included, and takes the payload
\* and the limit of a bare leaf; it stores offset, rcount = count and r.
C12_WrapsEveryView ==
    (Spliced /\ ~WholeRange) =>
        /\ StoresSplice
        /\ IF IsBareLeaf(last.a.arr)
           THEN /\ last.res.Value = last.a.arr.Value
                /\ last.res.Limit = last.a.arr.Limit
           ELSE /\ last.res.Value = ArrayValue(last.a.arr)
                /\ last.res.Limit = last.a.arr.Limit - 1

\* C12 amended: the Splice wraps the whole receiver and decrements the limit
\* when the receiver has a non-zero offset or a replacement; otherwise (a bare
\* leaf, and a prefix slice-view as well) it takes the receiver's Value and
\* Limit.  It stores offset, rcount = count and r.
C12_WrapsByOffsetOrReplacement ==
    (Spliced /\ ~WholeRange) =>
        /\ StoresSplice
        /\ IF last.a.arr.offset # 0 \/ IsSplice(last.a.arr)
           THEN /\ last.res.Value = ArrayValue(last.a.arr)
                /\ last.res.Limit = last.a.arr.Limit - 1
           ELSE /\ last.res.Value = last.a.arr.Value
                /\ last.res.Limit = last.a.arr.Limit

\* A Splice of a kept slice-view with a non-zero offset, which is wrapped,
\* while a prefix slice-view is kept too.
C12_Witness ==
    /\ Spliced /\ ~WholeRange
    /\ last.a \in held
    /\ ~IsSplice(last.a.arr) /\ last.a.arr.offset # 0
    /\ last.res.Value = ArrayValue(last.a.arr)
    /\ \E e \in held : IsPrefixView(e.arr)

\* C13: a Slice with count > 0, not the whole window, of a node without
\* replacement has the receiver's Value, the offsets added, Count = count and
\* the receiver's Limit; and no Slice of a node without replacement gives a
\* node with a replacement, a deeper Value chain or another Limit, so a chain
\* of Slice calls never does.
C13_SliceCollapses ==
    (Sliced /\ ~IsSplice(last.a.arr)) =>
        /\ (last.count > 0 /\ ~WholeRange) =>
             /\ last.res.Value = last.a.arr.Value
             /\ last.res.offset = last.a.arr.offset + last.offset
             /\ last.res.Count = last.count
             /\ last.res.rcount = 0
        /\ ~IsSplice(last.res)
        /\ Depth(last.res) <= Depth(last.a.arr)
        /\ last.res.Limit = last.a.arr.Limit

\* A Slice with a non-zero offset of a kept slice-view that has a non-zero
\* offset over a splice-view.
C13_Witness ==
    /\ Sliced /\ ~WholeRange /\ last.count > 0 /\ last.offset > 0
    /\ last.a \in held
    /\ ~IsSplice(last.a.arr) /\ last.a.arr.offset > 0
    /\ IsNested(last.a.arr) /\ IsSplice(last.a.arr.Value.a)
    /\ Depth(last.res) = 2

\* C14: a Slice with count > 0, not the whole window, of a splice-view has
\* the whole receiver as Value, internal offset = offset, Count = count, no
\* replacement and the receiver's Limit minus one.
C14_SliceWrapsSplice ==
    (Sliced /\ IsSplice(last.a.arr) /\ last.count > 0 /\ ~WholeRange) =>
        /\ last.res.Value = ArrayValue(last.a.arr)
        /\ last.res.offset = last.offset
        /\ last.res.Count = last.count
        /\ last.res.rcount = 0
        /\ last.res.replacement = NilPtr
        /\ last.res.Limit = last.a.arr.Limit - 1

\* A Slice with a non-zero offset of a nested splice-view that has a non-zero
\* offset itself.
C14_Witness ==
    /\ Sliced /\ ~WholeRange /\ last.count > 0 /\ last.offset > 0
    /\ IsSplice(last.a.arr) /\ IsNested(last.a.arr)
    /\ last.a.arr.offset > 0 /\ last.a.arr.offset # last.offset

\* The bound C17 puts on the Value chain of a node made from leaves whose
\* Limit is at most TestLimit.
WithinLimit(a) == Depth(a) <= TestLimit - a.Limit + 1

\* C17: with leaves of Limit TestLimit (or less), every node a Slice, a Splice
\* or the flattening returns, and every node kept, has
\* depth <= TestLimit - Limit + 1, where depth counts the nodes on the chain
\* n, n.Value, n.Value.Value, ... and not those reached through replacement.
C17_LimitBoundsDepth ==
    /\ Returned => WithinLimit(last.res)
    /\ \A e \in Operands : WithinLimit(e.arr)

\* A Splice that returns a node whose Value chain is as long as its Limit
\* allows, and whose traversal goes deeper through the replacement.
C17_Witness ==
    /\ Spliced /\ ~WholeRange
    /\ last.a.arr.Value.tag = "Slicer" /\ last.a.arr.Value.s = Other
    /\ Depth(last.res) >= 2
    /\ Depth(last.res) = TestLimit - last.res.Limit + 1
    /\ TotalDepth(last.res, mem) > TestLimit - last.res.Limit + 1

\* The last call is a Slice or a Splice whose arguments are not negative and
\* whose sum, taken in the integers, is past the end of the receiver.
PastTheEnd ==
    /\ last.op \in {"Slice", "Splice"}
    /\ last.offset >= 0 /\ last.count >= 0
    /\ last.offset + last.count > last.a.arr.Count

\* C15: a Slice or Splice with offset >= 0, count >= 0 and offset + count
\* (the sum in the integers) > a.Count fails, also when the sum is past the
\* largest int and the machine addition wraps around.
C15_BoundsCheckSound == PastTheEnd => last.panic

\* The calls of Array.forEach made below the ForEach of the last call.
Requested == forEachWindows(last.a.arr, 0, last.a.arr.Count, mem)

\* What C16 says of the calls a traversal makes to the payloads and to the
\* visit callback: it does not fail, every payload Slice(offset, count) has
\* 0 <= offset, 1 <= count and offset + count <= the payload's length, and
\* every visit has a length >= 1, the length of the segment, which is the
\* slice of the payload and not a node.
PayloadCallsInBounds ==
    /\ ~last.panic
    /\ \A i \in 1 .. Len(SliceCalls(last.calls)) :
         LET sc == SliceCalls(last.calls)[i]
         IN  /\ 0 <= sc.offset /\ 1 <= sc.count
             /\ sc.offset + sc.count <= Len(sc.recv)
    /\ Len(Visits(last.calls)) = Len(SliceCalls(last.calls))
    /\ \A i \in 1 .. Len(Visits(last.calls)) :
         LET v == Visits(last.calls)[i]
             sc == SliceCalls(last.calls)[i]
         IN  /\ v.count >= 1 /\ v.count = sc.count
             /\ v.v \in Seq({"a", "b", "c"}) /\ Len(v.v) = v.count
             /\ v.v = SlicerSlice(sc.recv, sc.offset, sc.count)

\* C16 as stated: the payload calls and the visits of a traversal are in
\* bounds, and every window a traversal asks of a nested node or of a
\* replacement lies within [0, that node's Count].
C16_EveryWindowInBounds ==
    last.op = "ForEach" =>
        /\ PayloadCallsInBounds
        /\ \A w \in Requested :
             0 <= w.offset /\ 0 <= w.count /\ w.offset + w.count <= w.node.Count

\* C16 amended: the payload calls and the visits of a traversal are in
\* bounds, and every window a traversal asks of a nested node or of a
\* replacement either lies within [0, that node's Count] or is empty: an
\* empty intersection is passed on as a window of count 0 whose offset,
\* 0 - a.offset, may be negative.
C16_NonEmptyWindowsInBounds ==
    last.op = "ForEach" =>
        /\ PayloadCallsInBounds
        /\ \A w \in Requested :
             /\ 0 <= w.count
             /\ w.count > 0 =>
                  0 <= w.offset /\ w.offset + w.count <= w.node.Count
             /\ w.count = 0 => w.offset \in {0, -last.a.arr.offset}
                               \/ \E e \in Requested : w.offset = -e.node.offset

\* A traversal of a slice-view over a splice-view, which asks the replacement
\* for an empty window and visits the tail of the value.
C16_Witness ==
    /\ Traversed
    /\ IsNested(last.a.arr) /\ IsSplice(last.a.arr.Value.a)
    /\ last.a.arr.offset > 0
    /\ \E w \in Requested : w.count = 0 /\ w.offset < 0
    /\ \E w \in Requested : w.count > 0 /\ w.offset > 0
    /\ Len(Visits(last.calls)) >= 1

\* C18: after every iteration of the caller loop of TestRandomSplices the
\* array held has 1 <= Limit <= LoopLimit and a traversal depth (through Value
\* and replacement) of LoopLimit + 1 at most, and no more than LoopLimit
\* iterations in a row leave an array that is not a bare leaf, so that every
\* LoopLimit + 1 consecutive iterations have a bare leaf among them.
C18_FlattenBoundsNesting ==
    /\ ~last.panic
    /\ \A e \in held :
         /\ 1 <= e.arr.Limit /\ e.arr.Limit <= LoopLimit
         /\ TotalDepth(e.arr, mem) <= LoopLimit + 1
         /\ Concat(ForEach(e.arr, mem).calls) = e.str
    /\ last.sinceLeaf <= LoopLimit
    /\ last.sinceLeaf = 0 <=> \A e \in held : IsLeaf(e.arr)

\* The iteration that flattens: LoopLimit iterations in a row have left a
\* splice-view, and the array spliced has all the depth the limit allows.
C18_Witness ==
    /\ last.op = "Splice" /\ last.flattened
    /\ IsSplice(last.a.arr) /\ Depth(last.a.arr) = LoopLimit
    /\ last.a.arr.Limit = 1
    /\ \A e \in held : IsLeaf(e.arr) /\ e.arr.Limit = LoopLimit /\ e.arr.Count > 2

RECURSIVE Deref(_, _)
\* The node a with every node it reaches in the heap m put in the place of
\* the pointer to it: what a caller can reach from a.
Deref(a, m) ==
    [Limit |-> a.Limit, Count |-> a.Count, offset |-> a.offset,
     rcount |-> a.rcount,
     Value |-> IF a.Value.tag = "Array"
               THEN ArrayValue(Deref(a.Value.a, m)) ELSE a.Value,
     replacement |-> IF a.replacement = NilPtr THEN <<>>
                     ELSE << Deref(m[a.replacement], m) >>]

\* Caller p has the node, and its traversal has made the calls, that it would
\* have had alone.
AsAlone(p) ==
    LET alone == held[p].solo
        visits == ForEach(alone.arr, alone.mem).calls
        calls == last[p].calls
    IN  /\ Deref(held[p].arr, mem) = Deref(alone.arr, alone.mem)
        /\ last[p].pc # "panic"
        /\ Len(calls) <= Len(visits)
        /\ calls = SubSeq(visits, 1, Len(calls))
        /\ last[p].pc = "done" => calls = visits

\* The step is of one caller and leaves what the others hold, their
\* traversals, every cell of the heap and so every node they reach as it was.
NoInterference ==
    /\ \E p \in Callers : \A q \in Callers \ {p} :
           /\ held'[q] = held[q]
           /\ last'[q] = last[q]
           /\ Deref(held[q].arr, mem') = Deref(held[q].arr, mem)
    /\ Len(mem') >= Len(mem)
    /\ \A i \in DOMAIN mem : mem'[i] = mem[i]
    /\ Deref(Shared.res, mem') = Deref(Shared.res, Shared.mem)

\* C11: when callers interleave Slice, Splice and the steps of ForEach over
\* nodes derived from a shared ancestor, no step of one caller changes a node
\* another caller reaches, and each caller has the result nodes and the visit
\* sequence it would have running alone.
C11_ConcurrentReaders ==
    /\ [](\A p \in Callers : AsAlone(p))
    /\ [][NoInterference]_vars

\* Both callers have spliced the shared ancestor, one with the ancestor itself
\* as replacement, and are in the middle of their traversals.
C11_Witness ==
    /\ \A p \in Callers :
         /\ last[p].pc = "forEach" /\ last[p].stack # <<>>
         /\ Len(last[p].calls) >= 2
         /\ IsSplice(held[p].arr) /\ IsNested(held[p].arr)
    /\ Len(mem) = 3
    /\ held[1].arr.Count # held[2].arr.Count
    /\ \E p \in Callers : mem[held[p].arr.replacement] = Shared.res

====
